---- MODULE Spec2Model ----
(***************************************************************************)
(* A model of pandevice/firewall.py: the Firewall device object, its XPath  *)
(* scope, its transport selection, the address-object and vsys operations   *)
(* and the interfaces side index kept by add_interface, delete_interface    *)
(* and refresh_interfaces.                                                  *)
(*                                                                          *)
(* Every handler is one action.  The transport (pan.xapi) is an external    *)
(* collaborator: each request either succeeds or raises, which is an input  *)
(* of the action.  The variables last* record the most recent invocation    *)
(* (operation, arguments, transport requests, outcome, return value, line   *)
(* of exit) and pre* the interface state held when it started.              *)
(***************************************************************************)
EXTENDS Integers, Sequences, FiniteSets, TLC

\* ------------------------------------------------------------------ bounds

\* The virtual systems of the device are vsys1 .. vsys<MaxVsys>.
MaxVsys == 2
\* The longest ifnet entry list of a "show interface all" response.
MaxEntries == 2

\* ------------------------------------------------------------ Python values

\* None where the other values of the attribute are strings.
PyNone == "<None>"
\* None where the other values are dicts.
NoneVal == [py |-> "None"]
\* {}
EmptyDict == [k \in {} |-> k]

\* d[k] = v on a dict
Put(d, k, v) == [x \in (DOMAIN d) \cup {k} |-> IF x = k THEN v ELSE d[x]]
\* d.pop(k, None)
Pop(d, k) == [x \in (DOMAIN d) \ {k} |-> d[x]]
\* d.get(k, default)
Get(d, k, default) == IF k \in DOMAIN d THEN d[k] ELSE default

\* ------------------------------------------------------------- the devices

VsysIds == {"vsys" \o ToString(i) : i \in 1..MaxVsys}
VsysValues == VsysIds \cup {"shared"}

\* The Firewall's own connection attributes (PanDevice.__init__ arguments).
FirewallDevice ==
    [hostname |-> "fw.example", port |-> 443, api_key |-> "fw-key",
     timeout |-> "fw-timeout"]
\* The management node a Firewall may be given as its panorama argument.
PanoramaDevice ==
    [hostname |-> "panorama.example", port |-> 8443, api_key |-> "panorama-key"]
PanoramaValues == {PyNone, "panorama"}

SerialArgs == {PyNone, "0001"}

\* What show_system_info() may return.
SystemInfos ==
    { [system |-> ("sw-version" :> "7.0.1" @@ "model" :> "PA-VM"
                   @@ "serial" :> "0002" @@ "multi-vsys" :> mv)]
      : mv \in {"on", "off"} }

\* What a transport request does: it returns, or raises one of the
\* protocol errors (PanObjectMissing: the addressed entry does not exist).
TransportOutcomes == {"ok", "PanXapiError", "PanObjectMissing"}

\* ----------------------------------------------------- the caller's objects

\* Two Interface objects (a parent and its subinterface) and one object
\* that is no Interface.
Objects == {"p", "c", "a"}
ObjName(o) ==
    CASE o = "p" -> "ethernet1/1"
      [] o = "c" -> "ethernet1/1.1"
      [] o = "a" -> "web-server-1"
ObjType(o) ==
    CASE o = "p" -> "Interface"
      [] o = "c" -> "Subinterface"
      [] o = "a" -> "AddressObject"
ObjParent(o) == IF o = "c" THEN "p" ELSE PyNone
InterfaceObjects == {o \in Objects : ObjType(o) \in {"Interface", "Subinterface"}}

\* The index's value for a caller's object.
ObjRef(o) == [id |-> o, name |-> ObjName(o)]

AddressNames == {"web-server-1", "db-1"}

VARIABLES
    vsys, vsys_name, serial, panorama, classify_exceptions,
    version, platform, multi_vsys,
    config_changed,
    interfaces,
    pan_device,
    lastOp, lastArg, lastReqs, lastOutcome, lastRet, lastExit,
    preInterfaces, prePanDevice

vars == <<vsys, vsys_name, serial, panorama, classify_exceptions,
          version, platform, multi_vsys, config_changed, interfaces,
          pan_device, lastOp, lastArg, lastReqs, lastOutcome, lastRet,
          lastExit, preInterfaces, prePanDevice>>

deviceVars == <<vsys, vsys_name, serial, panorama, classify_exceptions,
                version, platform, multi_vsys>>
interfaceVars == <<interfaces, pan_device>>

\* ---------------------------------------------------------------- recording

NoArg == [none |-> TRUE]
NoRet == [kind |-> "none"]
Raised == [kind |-> "raised"]
\* What a request that raised leaves to parse.
NoResponse == [none |-> TRUE]

Request(method, xpath, element, t) ==
    [method |-> method, xpath |-> xpath, element |-> element, result |-> t]

Record(op, arg, reqs, outcome, ret, exit) ==
    /\ lastOp' = op
    /\ lastArg' = arg
    /\ lastReqs' = reqs
    /\ lastOutcome' = outcome
    /\ lastRet' = ret
    /\ lastExit' = exit
    /\ preInterfaces' = interfaces
    /\ prePanDevice' = pan_device

\* --------------------------------------------------------------- the state

\* Firewall(): every argument at its default.
InitDefault ==
    /\ vsys = "vsys1"
    /\ vsys_name = PyNone
    /\ serial = PyNone
    /\ panorama = PyNone
    /\ classify_exceptions = TRUE
    /\ version = PyNone
    /\ platform = PyNone
    /\ multi_vsys = PyNone
    /\ config_changed = FALSE
    /\ interfaces = EmptyDict
    /\ pan_device = [o \in Objects |-> PyNone]
    /\ lastOp = "__init__"
    /\ lastArg = NoArg
    /\ lastReqs = <<>>
    /\ lastOutcome = "returned"
    /\ lastRet = NoRet
    /\ lastExit = 142
    /\ preInterfaces = EmptyDict
    /\ prePanDevice = [o \in Objects |-> PyNone]

\* Firewall(serial=..., vsys=..., panorama=..., classify_exceptions=...)
Init ==
    /\ vsys \in VsysValues
    /\ vsys_name = PyNone
    /\ serial \in SerialArgs
    /\ panorama \in PanoramaValues
    /\ classify_exceptions \in BOOLEAN
    /\ version = PyNone
    /\ platform = PyNone
    /\ multi_vsys = PyNone
    /\ config_changed = FALSE
    /\ interfaces = EmptyDict
    /\ pan_device = [o \in Objects |-> PyNone]
    /\ lastOp = "__init__"
    /\ lastArg = NoArg
    /\ lastReqs = <<>>
    /\ lastOutcome = "returned"
    /\ lastRet = NoRet
    /\ lastExit = 142
    /\ preInterfaces = EmptyDict
    /\ prePanDevice = [o \in Objects |-> PyNone]

\* ------------------------------------------------------------------ XPaths

\* Fault variant of xpath_vsys: the "shared" scope is not recognised.
xpath_vsys_ignoring_shared(v) ==
    "/config/devices/entry[@name='localhost.localdomain']/vsys/entry[@name='"
        \o v \o "']"

xpath_vsys(v) ==
    IF v = "shared"
    THEN "/config/shared"
    ELSE "/config/devices/entry[@name='localhost.localdomain']/vsys/entry[@name='"
             \o v \o "']"

\* PanDevice.xpath_device
xpath_device == "/config/devices/entry[@name='localhost.localdomain']"

\* The xpath attribute of a device whose ROOT is Root.VSYS.
xpath == xpath_vsys(vsys)

\* PanDevice.set_config_changed
set_config_changed == config_changed' = TRUE

\* str.startswith("vsys")
StartsWithVsys(v) == v \in VsysIds

\* The caller assigns the public vsys attribute.
set_vsys(v) ==
    /\ vsys' = v
    /\ UNCHANGED <<vsys_name, serial, panorama, classify_exceptions, version,
                   platform, multi_vsys, config_changed, interfaceVars>>
    /\ Record("vsys=", [vsys |-> v], <<>>, "returned", NoRet, 136)

\* The caller assigns the public vsys_name attribute.
set_vsys_name(n) ==
    /\ vsys_name' = n
    /\ UNCHANGED <<vsys, serial, panorama, classify_exceptions, version,
                   platform, multi_vsys, config_changed, interfaceVars>>
    /\ Record("vsys_name=", [vsys_name |-> n], <<>>, "returned", NoRet, 137)

\* Fault variant of xpath_panorama: raises only when no panorama is set.
xpath_panorama_when_unmanaged ==
    /\ UNCHANGED <<deviceVars, config_changed, interfaceVars>>
    /\ IF panorama = PyNone
       THEN Record("xpath_panorama", NoArg, <<>>, "PanDeviceError", Raised, 151)
       ELSE Record("xpath_panorama", NoArg, <<>>, "returned",
                   [kind |-> "path", value |-> "/config/panorama"], 151)

xpath_panorama ==
    /\ UNCHANGED <<deviceVars, config_changed, interfaceVars>>
    /\ Record("xpath_panorama", NoArg, <<>>, "PanDeviceError", Raised, 151)

\* ----------------------------------------------------------- the transport

\* PanDevice.generate_xapi: the transport that connects to the device itself.
super_generate_xapi ==
    [kind |-> "xapi",
     constructor |-> IF classify_exceptions THEN "XapiWrapper" ELSE "PanXapi",
     api_key |-> FirewallDevice.api_key,
     hostname |-> FirewallDevice.hostname,
     port |-> FirewallDevice.port,
     timeout |-> FirewallDevice.timeout,
     serial |-> PyNone]

ProxiedXapi ==
    [kind |-> "xapi",
     constructor |-> IF classify_exceptions THEN "XapiWrapper" ELSE "PanXapi",
     api_key |-> PanoramaDevice.api_key,
     hostname |-> PanoramaDevice.hostname,
     port |-> PanoramaDevice.port,
     timeout |-> FirewallDevice.timeout,
     serial |-> serial]

\* Fault variant of generate_xapi: "or" in place of "and".
generate_xapi_on_either ==
    /\ UNCHANGED <<deviceVars, config_changed, interfaceVars>>
    /\ IF panorama # PyNone \/ serial # PyNone
       THEN Record("generate_xapi", NoArg, <<>>, "returned", ProxiedXapi, 186)
       ELSE Record("generate_xapi", NoArg, <<>>, "returned",
                   super_generate_xapi, 188)

generate_xapi ==
    /\ UNCHANGED <<deviceVars, config_changed, interfaceVars>>
    /\ IF panorama # PyNone /\ serial # PyNone
       THEN Record("generate_xapi", NoArg, <<>>, "returned", ProxiedXapi, 186)
       ELSE Record("generate_xapi", NoArg, <<>>, "returned",
                   super_generate_xapi, 188)

\* show_system_info() issues one op request; info is what it parses.
refresh_system_info(info, t) ==
    LET req == Request("op", "show system info", "", t) IN
    IF t # "ok"
    THEN /\ UNCHANGED <<deviceVars, config_changed, interfaceVars>>
         /\ Record("refresh_system_info", NoArg, <<req>>, t, Raised, 196)
    ELSE /\ version' = info.system["sw-version"]
         /\ platform' = info.system["model"]
         /\ serial' = info.system["serial"]
         /\ multi_vsys' = IF info.system["multi-vsys"] = "on" THEN "True" ELSE "False"
         /\ UNCHANGED <<vsys, vsys_name, panorama, classify_exceptions,
                        config_changed, interfaceVars>>
         /\ Record("refresh_system_info", NoArg, <<req>>, "returned",
                   [kind |-> "tuple",
                    value |-> <<info.system["sw-version"], info.system["model"],
                                info.system["serial"]>>], 203)

\* ------------------------------------------------------------ vsys entries

\* ET.tostring of the entry element built by create().
VsysElement ==
    IF vsys_name # PyNone
    THEN "<entry name=\"" \o vsys \o "\"><display-name>" \o vsys_name
             \o "</display-name></entry>"
    ELSE "<entry name=\"" \o vsys \o "\" />"

create(t) ==
    /\ UNCHANGED <<deviceVars, config_changed, interfaceVars>>
    /\ IF StartsWithVsys(vsys)
       THEN LET req == Request("set", xpath_device \o "/vsys", VsysElement, t) IN
            IF t = "ok"
            THEN Record("create", NoArg, <<req>>, "returned", NoRet, 214)
            ELSE Record("create", NoArg, <<req>>, t, Raised, 214)
       ELSE Record("create", NoArg, <<>>, "returned", NoRet, 210)

delete(t) ==
    /\ UNCHANGED <<deviceVars, config_changed, interfaceVars>>
    /\ IF StartsWithVsys(vsys)
       THEN LET req == Request("delete",
                               xpath_device \o "/vsys/entry[@name='" \o vsys \o "']",
                               "", t) IN
            IF t = "ok"
            THEN Record("delete", NoArg, <<req>>, "returned", NoRet, 219)
            ELSE Record("delete", NoArg, <<req>>, t, Raised, 219)
       ELSE Record("delete", NoArg, <<>>, "returned", NoRet, 218)

\* --------------------------------------------------------- address objects

add_address_object(name, address, description, t) ==
    LET address_xpath == xpath \o "/address/entry[@name='" \o name \o "']"
        element == "<ip-netmask>" \o address \o "</ip-netmask><description>"
                       \o description \o "</description>"
        req == Request("set", address_xpath, element, t)
        arg == [name |-> name, address |-> address, description |-> description]
    IN
    /\ set_config_changed
    /\ UNCHANGED <<deviceVars, interfaceVars>>
    /\ IF t = "ok"
       THEN Record("add_address_object", arg, <<req>>, "returned", NoRet, 242)
       ELSE Record("add_address_object", arg, <<req>>, t, Raised, 242)

\* Fault variant of delete_address_object: a failed delete is retried and
\* its error swallowed.
delete_address_object_retrying(name, t) ==
    LET address_xpath == xpath \o "/address/entry[@name='" \o name \o "']"
        req == Request("delete", address_xpath, "", t)
        again == Request("delete", address_xpath, "", "ok")
    IN
    /\ set_config_changed
    /\ UNCHANGED <<deviceVars, interfaceVars>>
    /\ IF t = "ok"
       THEN Record("delete_address_object", [name |-> name], <<req>>,
                   "returned", NoRet, 259)
       ELSE Record("delete_address_object", [name |-> name], <<req, again>>,
                   "returned", NoRet, 259)

delete_address_object(name, t) ==
    LET address_xpath == xpath \o "/address/entry[@name='" \o name \o "']"
        req == Request("delete", address_xpath, "", t)
    IN
    /\ set_config_changed
    /\ UNCHANGED <<deviceVars, interfaceVars>>
    /\ IF t = "ok"
       THEN Record("delete_address_object", [name |-> name], <<req>>,
                   "returned", NoRet, 259)
       ELSE Record("delete_address_object", [name |-> name], <<req>>, t,
                   Raised, 259)

\* What PanConfig(...).python() may give get_all_address_objects.
AddressResponses ==
    { [result |-> [address |-> "entries"]], [status |-> "success"] }

get_all_address_objects(response, t) ==
    LET req == Request("get", xpath \o "/address", "", t) IN
    /\ UNCHANGED <<deviceVars, config_changed, interfaceVars>>
    /\ IF t # "ok"
       THEN Record("get_all_address_objects", NoArg, <<req>>, t, Raised, 277)
       ELSE IF "result" \in DOMAIN response
       THEN Record("get_all_address_objects", NoArg, <<req>>, "returned",
                   [kind |-> "result", value |-> response.result], 280)
       ELSE Record("get_all_address_objects", NoArg, <<req>>, "KeyError",
                   Raised, 280)

\* ------------------------------------------------------ the interfaces index

\* issubclass(type(pan_interface), Interface)
IsInterfaceType(ty) == ty \in {"Interface", "Subinterface"}

\* Interface.xpath
InterfaceXpath(o) ==
    xpath_device \o "/network/interface/ethernet/entry[@name='" \o ObjName(o) \o "']"

\* Interface.apply: one edit request at the interface's XPath.
InterfaceApply(o, t) == Request("edit", InterfaceXpath(o), "interface", t)

\* Interface.delete: one delete request at the interface's XPath.
InterfaceDelete(o, t) == Request("delete", InterfaceXpath(o), "", t)

\* Fault variant of add_interface: the type check follows the attach.
add_interface_checking_late(o, apply, t) ==
    LET arg == [pan_interface |-> o, apply |-> apply]
        withParent ==
            IF ObjParent(o) # PyNone /\ ObjName(ObjParent(o)) \notin DOMAIN interfaces
            THEN Put(interfaces, ObjName(ObjParent(o)), ObjRef(ObjParent(o)))
            ELSE interfaces
        index == Put(withParent, ObjName(o), ObjRef(o))
        req == InterfaceApply(o, t)
    IN
    /\ set_config_changed
    /\ UNCHANGED deviceVars
    /\ interfaces' = index
    /\ pan_device' = [pan_device EXCEPT ![o] = "fw"]
    /\ IF ~IsInterfaceType(ObjType(o))
       THEN Record("add_interface", arg, <<>>, "TypeError", Raised, 287)
       ELSE IF ~apply
       THEN Record("add_interface", arg, <<>>, "returned", NoRet, 299)
       ELSE IF t = "ok"
       THEN Record("add_interface", arg, <<req>>, "returned", NoRet, 300)
       ELSE Record("add_interface", arg, <<req>>, t, Raised, 300)

add_interface(o, apply, t) ==
    LET arg == [pan_interface |-> o, apply |-> apply]
        withParent ==
            IF ObjParent(o) # PyNone /\ ObjName(ObjParent(o)) \notin DOMAIN interfaces
            THEN Put(interfaces, ObjName(ObjParent(o)), ObjRef(ObjParent(o)))
            ELSE interfaces
        index == Put(withParent, ObjName(o), ObjRef(o))
        req == InterfaceApply(o, t)
    IN
    /\ set_config_changed
    /\ UNCHANGED deviceVars
    /\ IF ~IsInterfaceType(ObjType(o))
       THEN /\ UNCHANGED interfaceVars
            /\ Record("add_interface", arg, <<>>, "TypeError", Raised, 287)
       ELSE /\ interfaces' = index
            /\ pan_device' = [pan_device EXCEPT ![o] = "fw"]
            /\ IF ~apply
               THEN Record("add_interface", arg, <<>>, "returned", NoRet, 299)
               ELSE IF t = "ok"
               THEN Record("add_interface", arg, <<req>>, "returned", NoRet, 300)
               ELSE Record("add_interface", arg, <<req>>, t, Raised, 300)

\* parent_empty is "not pan_interface.parent.subinterfaces", read from the
\* parent object at the call.
delete_interface(o, apply, delete_empty_parent, parent_empty, t) ==
    LET arg == [pan_interface |-> o, apply |-> apply,
                delete_empty_parent |-> delete_empty_parent,
                parent_empty |-> parent_empty]
        popped == Pop(interfaces, ObjName(o))
        attached == IF pan_device[o] = PyNone
                    THEN [pan_device EXCEPT ![o] = "fw"]
                    ELSE pan_device
        parentBranch ==
            delete_empty_parent /\ ObjParent(o) # PyNone /\ parent_empty
        index == IF parentBranch THEN Pop(popped, ObjName(o)) ELSE popped
        req == IF parentBranch
               THEN InterfaceDelete(ObjParent(o), t)
               ELSE InterfaceDelete(o, t)
    IN
    /\ set_config_changed
    /\ UNCHANGED deviceVars
    /\ interfaces' = index
    /\ IF apply /\ t # "ok"
       THEN /\ pan_device' = attached
            /\ Record("delete_interface", arg, <<req>>, t, Raised,
                      IF parentBranch THEN 314 ELSE 317)
       ELSE /\ pan_device' = [attached EXCEPT ![o] = PyNone]
            /\ Record("delete_interface", arg, IF apply THEN <<req>> ELSE <<>>,
                      "returned", NoRet, 319)

\* ------------------------------------------------- "show interface all"

SeqsUpTo(S, n) == UNION {[1..k -> S] : k \in 0..n}

\* The ifnet entries a response may hold.  fwd is a string, kept as its
\* characters so that split(":", 1) is computed; the last entry lacks 'zone'.
IfnetEntries ==
    { [name |-> "ethernet1/1", zone |-> "trust",
       fwd |-> <<"v", "r", ":", "d">>, ip |-> "10.1.1.1/24"],
      [name |-> "ethernet1/2", zone |-> "untrust",
       fwd |-> <<"N", "/", "A">>, ip |-> "N/A"],
      [name |-> "ethernet1/2", fwd |-> <<"N", "/", "A">>, ip |-> "N/A"] }

HwEntry == [name |-> "ethernet1/1", state |-> "up"]
HwValues == {NoneVal, [entry |-> <<>>], [entry |-> <<HwEntry>>]}
IfnetValues ==
    {NoneVal} \cup {[entry |-> s] : s \in SeqsUpTo(IfnetEntries, MaxEntries)}

\* response['response']['result'] as PanConfig(...).python() may give it
InterfaceResults ==
    {NoneVal, EmptyDict}
        \cup {[hw |-> h] : h \in HwValues}
        \cup {[ifnet |-> i] : i \in IfnetValues}
        \cup {[hw |-> h, ifnet |-> i] : h \in HwValues, i \in IfnetValues}

InterfaceResponses ==
    {[status |-> "error"], [response |-> [status |-> "success"]]}
        \cup {[response |-> [result |-> r]] : r \in InterfaceResults}

\* s.split(":", 1)
SplitColon(s) ==
    IF \E i \in 1..Len(s) : s[i] = ":"
    THEN LET i == CHOOSE j \in 1..Len(s) :
                      s[j] = ":" /\ \A k \in 1..(j - 1) : s[k] # ":"
         IN <<SubSeq(s, 1, i - 1), SubSeq(s, i + 1, Len(s))>>
    ELSE <<s>>

\* entry['fwd'].split(":", 1)[1], or entry['fwd'] on IndexError
Router(fwd) == IF Len(SplitColon(fwd)) >= 2 THEN SplitColon(fwd)[2] ELSE fwd

\* for hw_entry in hw_result: hw[hw_entry['name']] = hw_entry
RECURSIVE BuildHw(_, _)
BuildHw(hw_result, hw) ==
    IF hw_result = <<>>
    THEN hw
    ELSE BuildHw(Tail(hw_result), Put(hw, Head(hw_result).name, Head(hw_result)))

\* Interface(name=..., zone=..., router=..., subnets=[...], state=...)
NewInterface(entry, hw) ==
    [id |-> "new", name |-> entry.name, zone |-> entry.zone,
     router |-> Router(entry.fwd), subnets |-> <<entry.ip>>,
     state |-> Get(Get(hw, entry.name, EmptyDict), "state", PyNone)]

\* for entry in if_result: ... interfaces[entry['name']] = interface
\* A missing key of an entry raises KeyError out of the loop.
RECURSIVE BuildInterfaces(_, _, _)
BuildInterfaces(if_result, hw, acc) ==
    IF if_result = <<>>
    THEN [error |-> "", interfaces |-> acc]
    ELSE LET entry == Head(if_result) IN
         IF ~({"fwd", "name", "zone", "ip"} \subseteq DOMAIN entry)
         THEN [error |-> "KeyError", interfaces |-> acc]
         ELSE BuildInterfaces(Tail(if_result), hw,
                              Put(acc, entry.name, NewInterface(entry, hw)))

\* Fault variant of RefreshedIndex: the new entries are merged into the
\* old index.
RefreshedIndex_merging(old, built) ==
    [k \in (DOMAIN old) \cup (DOMAIN built) |->
        IF k \in DOMAIN built THEN built[k] ELSE old[k]]

\* self.interfaces = interfaces
RefreshedIndex(old, built) == built

\* Fault variant of refresh_interfaces: the entries built before a KeyError
\* are stored.
refresh_interfaces_in_place(response, t) ==
    LET req == Request("op", "show interface \"all\"", "", t)
        arg == [response |-> response]
        result == response.response.result
        hw_result == Get(result, "hw", EmptyDict)
        if_result == Get(result, "ifnet", EmptyDict)
        hw == BuildHw(Get(hw_result, "entry", <<>>), EmptyDict)
        built == BuildInterfaces(Get(if_result, "entry", <<>>), hw, EmptyDict)
    IN
    /\ UNCHANGED <<deviceVars, config_changed, pan_device>>
    /\ IF t # "ok"
       THEN /\ UNCHANGED interfaces
            /\ Record("refresh_interfaces", arg, <<req>>, t, Raised, 322)
       ELSE IF ~("response" \in DOMAIN response
                 /\ "result" \in DOMAIN response.response)
       THEN /\ UNCHANGED interfaces
            /\ Record("refresh_interfaces", arg, <<req>>, "PanDeviceError",
                      Raised, 331)
       ELSE IF result = NoneVal \/ DOMAIN result = {}
       THEN /\ UNCHANGED interfaces
            /\ Record("refresh_interfaces", arg, <<req>>, "PanDeviceError",
                      Raised, 360)
       ELSE IF hw_result = NoneVal
       THEN /\ UNCHANGED interfaces
            /\ Record("refresh_interfaces", arg, <<req>>, "returned", NoRet, 337)
       ELSE IF if_result = NoneVal
       THEN /\ UNCHANGED interfaces
            /\ Record("refresh_interfaces", arg, <<req>>, "returned", NoRet, 344)
       ELSE IF built.error # ""
       THEN /\ interfaces' = built.interfaces
            /\ Record("refresh_interfaces", arg, <<req>>, built.error, Raised, 352)
       ELSE /\ interfaces' = built.interfaces
            /\ Record("refresh_interfaces", arg, <<req>>, "returned", NoRet, 361)

refresh_interfaces(response, t) ==
    LET req == Request("op", "show interface \"all\"", "", t)
        arg == [response |-> response]
        result == response.response.result
        hw_result == Get(result, "hw", EmptyDict)
        if_result == Get(result, "ifnet", EmptyDict)
        hw == BuildHw(Get(hw_result, "entry", <<>>), EmptyDict)
        built == BuildInterfaces(Get(if_result, "entry", <<>>), hw, EmptyDict)
    IN
    /\ UNCHANGED <<deviceVars, config_changed, pan_device>>
    /\ IF t # "ok"
       THEN /\ UNCHANGED interfaces
            /\ Record("refresh_interfaces", arg, <<req>>, t, Raised, 322)
       ELSE IF ~("response" \in DOMAIN response
                 /\ "result" \in DOMAIN response.response)
       THEN /\ UNCHANGED interfaces
            /\ Record("refresh_interfaces", arg, <<req>>, "PanDeviceError",
                      Raised, 331)
       ELSE IF result = NoneVal \/ DOMAIN result = {}
       THEN /\ UNCHANGED interfaces
            /\ Record("refresh_interfaces", arg, <<req>>, "PanDeviceError",
                      Raised, 360)
       ELSE IF hw_result = NoneVal
       THEN /\ UNCHANGED interfaces
            /\ Record("refresh_interfaces", arg, <<req>>, "returned", NoRet, 337)
       ELSE IF if_result = NoneVal
       THEN /\ UNCHANGED interfaces
            /\ Record("refresh_interfaces", arg, <<req>>, "returned", NoRet, 344)
       ELSE IF built.error # ""
       THEN /\ UNCHANGED interfaces
            /\ Record("refresh_interfaces", arg, <<req>>, built.error, Raised, 352)
       ELSE /\ interfaces' = RefreshedIndex(interfaces, built.interfaces)
            /\ Record("refresh_interfaces", arg, <<req>>, "returned", NoRet, 361)

\* ------------------------------------------------------------- the actions

SetVsys == \E v \in VsysValues : set_vsys(v)
SetVsysName == \E n \in {PyNone, "tenant-a"} : set_vsys_name(n)
XpathPanorama == xpath_panorama
GenerateXapi == generate_xapi
RefreshSystemInfo ==
    \E t \in TransportOutcomes :
        \E info \in IF t = "ok" THEN SystemInfos ELSE {NoResponse} :
            refresh_system_info(info, t)
Create == \E t \in TransportOutcomes : create(t)
Delete == \E t \in TransportOutcomes : delete(t)
AddAddressObject ==
    \E name \in AddressNames, t \in TransportOutcomes :
        add_address_object(name, "10.1.1.5/32", "prod web", t)
DeleteAddressObject ==
    \E name \in AddressNames, t \in TransportOutcomes :
        delete_address_object(name, t)
GetAllAddressObjects ==
    \E t \in TransportOutcomes :
        \E response \in IF t = "ok" THEN AddressResponses ELSE {NoResponse} :
            get_all_address_objects(response, t)
AddInterface ==
    \E o \in Objects, apply \in BOOLEAN :
        \E t \in IF apply /\ IsInterfaceType(ObjType(o))
                 THEN TransportOutcomes ELSE {"ok"} :
            add_interface(o, apply, t)
DeleteInterface ==
    \E o \in InterfaceObjects, apply \in BOOLEAN, delete_empty_parent \in BOOLEAN :
        \E parent_empty \in IF delete_empty_parent /\ ObjParent(o) # PyNone
                            THEN BOOLEAN ELSE {FALSE} :
            \E t \in IF apply THEN TransportOutcomes ELSE {"ok"} :
                delete_interface(o, apply, delete_empty_parent, parent_empty, t)
RefreshInterfaces ==
    \E t \in TransportOutcomes :
        \E response \in IF t = "ok" THEN InterfaceResponses ELSE {NoResponse} :
            refresh_interfaces(response, t)

\* Every operation of the Firewall.
Next ==
    \/ SetVsys
    \/ SetVsysName
    \/ XpathPanorama
    \/ GenerateXapi
    \/ RefreshSystemInfo
    \/ Create
    \/ Delete
    \/ AddAddressObject
    \/ DeleteAddressObject
    \/ GetAllAddressObjects
    \/ AddInterface
    \/ DeleteInterface
    \/ RefreshInterfaces

Spec == Init /\ [][Next]_vars

\* Every operation but the collection refresh, from any construction.
NextDevice ==
    \/ SetVsys
    \/ SetVsysName
    \/ XpathPanorama
    \/ GenerateXapi
    \/ RefreshSystemInfo
    \/ Create
    \/ Delete
    \/ AddAddressObject
    \/ DeleteAddressObject
    \/ GetAllAddressObjects
    \/ AddInterface
    \/ DeleteInterface

SpecDevice == Init /\ [][NextDevice]_vars

\* The three operations that maintain the interfaces index, on Firewall().
NextInterfaces ==
    \/ AddInterface
    \/ DeleteInterface
    \/ RefreshInterfaces

SpecInterfaces == InitDefault /\ [][NextInterfaces]_vars

\* ================================================================= claims

\* The names of the ifnet entries of a parsed response (none when the
\* response has no ifnet entry list).
RemoteNames(response) ==
    IF /\ "response" \in DOMAIN response
       /\ "result" \in DOMAIN response.response
       /\ "ifnet" \in DOMAIN response.response.result
       /\ "entry" \in DOMAIN response.response.result.ifnet
    THEN {response.response.result.ifnet.entry[i].name :
              i \in 1..Len(response.response.result.ifnet.entry)}
    ELSE {}

\* The response holds response/result and, inside it, both a hw and an
\* ifnet container.
HasContainerPath(response) ==
    /\ "response" \in DOMAIN response
    /\ "result" \in DOMAIN response.response
    /\ {"hw", "ifnet"} \subseteq DOMAIN response.response.result
    /\ response.response.result.hw # NoneVal
    /\ response.response.result.ifnet # NoneVal

\* The result holds a hw or an ifnet container that is null.
HasNullContainer(response) ==
    /\ "response" \in DOMAIN response
    /\ "result" \in DOMAIN response.response
    /\ \E c \in {"hw", "ifnet"} :
          /\ c \in DOMAIN response.response.result
          /\ response.response.result[c] = NoneVal

\* The interfaces whose remote delete the last invocation issued.
RemotelyDeleted ==
    {o \in InterfaceObjects :
        \E i \in 1..Len(lastReqs) : lastReqs[i] = InterfaceDelete(o, "ok")}

\* C1: after add_interface, delete_interface and refresh_interfaces calls
\* that return normally, every key k of the interfaces index maps to an
\* interface named k, and no interface whose remote delete delete_interface
\* issued is still a key of the index (the emptied parent included).
C1_IndexInSync ==
    /\ \A k \in DOMAIN interfaces : interfaces[k].name = k
    /\ (lastOp = "delete_interface" /\ lastOutcome = "returned")
          => \A o \in RemotelyDeleted : ObjName(o) \notin DOMAIN interfaces

ScopePrefix(v) ==
    IF v = "shared"
    THEN "/config/shared"
    ELSE "/config/devices/entry[@name='localhost.localdomain']/vsys/entry[@name='"
             \o v \o "']"

\* C2: the XPath add_address_object and delete_address_object address is
\* the scope prefix of the current vsys ("/config/shared" for "shared", the
\* vsys entry otherwise) followed by /address/entry[@name='n']; the relative
\* segment does not depend on the vsys.
C2_AddressXpath ==
    lastOp \in {"add_address_object", "delete_address_object"}
        => /\ Len(lastReqs) = 1
           /\ lastReqs[1].xpath
                  = ScopePrefix(vsys) \o "/" \o "address/entry[@name='"
                        \o lastArg.name \o "']"
           /\ (vsys = "vsys1" /\ lastArg.name = "web-server-1")
                  => lastReqs[1].xpath =
                         "/config/devices/entry[@name='localhost.localdomain']/vsys/entry[@name='vsys1']/address/entry[@name='web-server-1']"

\* C2 witness: delete_address_object("web-server-1") on a Firewall whose
\* vsys is "shared" addresses /config/shared/address/entry[...].
C2_Witness ==
    /\ lastOp = "delete_address_object"
    /\ vsys = "shared"
    /\ lastArg.name = "web-server-1"
    /\ lastReqs[1].xpath = "/config/shared/address/entry[@name='web-server-1']"

\* C3: refresh_interfaces never returns normally on a response that lacks
\* the response/result wrapper or the hw or ifnet container inside it.
C3_RefreshRaisesOnMissingContainer ==
    (/\ lastOp = "refresh_interfaces"
     /\ lastReqs[1].result = "ok"
     /\ ~HasContainerPath(lastArg.response))
        => lastOutcome # "returned"

\* C4 as claimed: after a refresh_interfaces that returns normally every
\* remote ifnet entry is in the index under its name, and every interface
\* that was in the index and is absent from the response is still there.
C4_RefreshKeepsStale ==
    (lastOp = "refresh_interfaces" /\ lastOutcome = "returned")
        => /\ \A n \in RemoteNames(lastArg.response) :
                  n \in DOMAIN interfaces /\ interfaces[n].name = n
           /\ \A k \in DOMAIN preInterfaces :
                  k \notin RemoteNames(lastArg.response) => k \in DOMAIN interfaces

\* C4 as amended: a refresh_interfaces that returns normally either met a
\* null hw or ifnet container and left the index as it was, or replaced the
\* index by exactly the remote ifnet entries, each a new node keyed by its
\* name; an interface absent from the response is dropped.
C4_RefreshReplaces ==
    (lastOp = "refresh_interfaces" /\ lastOutcome = "returned")
        => IF HasNullContainer(lastArg.response)
           THEN interfaces = preInterfaces
           ELSE /\ DOMAIN interfaces = RemoteNames(lastArg.response)
                /\ \A n \in DOMAIN interfaces :
                      interfaces[n].name = n /\ interfaces[n].id = "new"

\* C4 witness: a refresh returned, the response named an interface, and an
\* interface that was in the index but not in the response is gone.
C4_Witness ==
    /\ lastOp = "refresh_interfaces"
    /\ lastOutcome = "returned"
    /\ RemoteNames(lastArg.response) # {}
    /\ \E k \in DOMAIN preInterfaces :
          k \notin RemoteNames(lastArg.response) /\ k \notin DOMAIN interfaces

\* C5: add_interface with an argument that is no Interface raises TypeError
\* before any transport request and leaves the index and every pan_device
\* back-reference as they were.
C5_AddInterfaceTypeError ==
    (lastOp = "add_interface"
     /\ ObjType(lastArg.pan_interface) \notin {"Interface", "Subinterface"})
        => /\ lastOutcome = "TypeError"
           /\ lastReqs = <<>>
           /\ interfaces = preInterfaces
           /\ pan_device = prePanDevice

\* C5 witness: the TypeError was raised on a Firewall whose index is not
\* empty and that owns an interface.
C5_Witness ==
    /\ lastOp = "add_interface"
    /\ lastArg.pan_interface = "a"
    /\ lastOutcome = "TypeError"
    /\ DOMAIN interfaces # {}
    /\ \E o \in InterfaceObjects : pan_device[o] = "fw"

\* C6: an invocation of add_address_object, delete_address_object,
\* get_all_address_objects, create, delete, add_interface or delete_interface
\* issues at most one transport request, and a request that raises is the
\* last one issued and its error is the invocation's outcome.
C6_NoRetryNoSwallow ==
    lastOp \in {"add_address_object", "delete_address_object",
                "get_all_address_objects", "create", "delete",
                "add_interface", "delete_interface"}
        => /\ Len(lastReqs) <= 1
           /\ \A i \in 1..Len(lastReqs) :
                  lastReqs[i].result # "ok"
                      => i = Len(lastReqs) /\ lastOutcome = lastReqs[i].result

\* C6 witness: the delete of an address object that does not exist raised
\* PanObjectMissing, which reached the caller.
C6_Witness ==
    /\ lastOp = "delete_address_object"
    /\ Len(lastReqs) = 1
    /\ lastReqs[1].method = "delete"
    /\ lastReqs[1].result = "PanObjectMissing"
    /\ lastOutcome = "PanObjectMissing"

\* C7: xpath_panorama raises PanDeviceError in every Firewall state and
\* returns no path.
C7_XpathPanoramaRaises ==
    lastOp = "xpath_panorama"
        => lastOutcome = "PanDeviceError" /\ lastRet.kind # "path"

\* C7 witness: xpath_panorama raised on a Firewall that has a panorama and
\* a serial and whose vsys is "shared".
C7_Witness ==
    /\ lastOp = "xpath_panorama"
    /\ lastOutcome = "PanDeviceError"
    /\ panorama # PyNone
    /\ serial # PyNone
    /\ vsys = "shared"

\* C8: generate_xapi builds the transport proxied through panorama
\* (panorama's hostname, port and api_key, target the firewall's serial)
\* exactly when panorama and serial are both set at the call, and the direct
\* transport with no target otherwise.
C8_ProxiedIffPanoramaAndSerial ==
    lastOp = "generate_xapi"
        => IF panorama # PyNone /\ serial # PyNone
           THEN /\ lastRet.hostname = PanoramaDevice.hostname
                /\ lastRet.port = PanoramaDevice.port
                /\ lastRet.api_key = PanoramaDevice.api_key
                /\ lastRet.serial = serial
           ELSE /\ lastRet.hostname = FirewallDevice.hostname
                /\ lastRet.port = FirewallDevice.port
                /\ lastRet.api_key = FirewallDevice.api_key
                /\ lastRet.serial = PyNone

\* C8 witness: the proxied transport targets the serial that
\* refresh_system_info wrote (no constructor argument has that value).
C8_Witness ==
    /\ lastOp = "generate_xapi"
    /\ lastRet.hostname = PanoramaDevice.hostname
    /\ lastRet.serial = "0002"
    /\ "0002" \notin SerialArgs

\* C9: when the transport delete raises during
\* delete_interface(pan_interface, apply=True) the state is as before the
\* call: pan_interface is still in the index where it was, and its
\* pan_device back-reference has its pre-call value.
C9_FailedDeleteLeavesState ==
    (lastOp = "delete_interface" /\ lastArg.apply /\ lastOutcome # "returned")
        => LET n == ObjName(lastArg.pan_interface) IN
           /\ n \in DOMAIN preInterfaces
                  => n \in DOMAIN interfaces /\ interfaces[n] = preInterfaces[n]
           /\ pan_device[lastArg.pan_interface]
                  = prePanDevice[lastArg.pan_interface]

\* C10: a refresh_interfaces that raises or returns early leaves the
\* interfaces index exactly as it was; only the call that completes the
\* iteration over the remote entries replaces it, by the whole new index.
C10_RefreshAtomic ==
    lastOp = "refresh_interfaces"
        => /\ (lastOutcome # "returned" \/ HasNullContainer(lastArg.response))
                  => interfaces = preInterfaces
           /\ interfaces # preInterfaces
                  => /\ lastOutcome = "returned"
                     /\ DOMAIN interfaces = RemoteNames(lastArg.response)

\* C10 witness: the iteration raised on its second entry, after a first
\* entry that differs from the index held, and the index is still the
\* non-empty one held before.
C10_Witness ==
    /\ lastOp = "refresh_interfaces"
    /\ lastOutcome = "KeyError"
    /\ preInterfaces # EmptyDict
    /\ interfaces = preInterfaces
    /\ Len(lastArg.response.response.result.ifnet.entry) >= 2
    /\ lastArg.response.response.result.ifnet.entry[1].name \notin DOMAIN interfaces

====
